---- MODULE Spec2Model ----
(***************************************************************************)
(* A model of the FontForge script collection: convert_font.py,            *)
(* optimize_glyph.py, merge_svg_font.py, font_cmap_compare.py and          *)
(* font_diff_checker.py.  One run of one script is one behaviour: Init     *)
(* picks the script, its command line and the outcomes of the library      *)
(* calls the scripts cannot control (file exists, open raises, generate    *)
(* raises); the actions are the statements of the scripts in order.        *)
(*                                                                         *)
(* Strings that the code takes apart (paths, names, file names) are        *)
(* sequences of one-character strings.  An optional value (argparse's      *)
(* None) is the empty tuple, a present value v is <<v>>.  Tolerances are   *)
(* in tenths (0.5 is 5).                                                   *)
(***************************************************************************)
EXTENDS Integers, Sequences, FiniteSets, TLC

\* ------------------------------------------------------------------ bounds
MaxPathLen == 3
MaxGlyphs == 2
MaxEntries == 2
MaxCp == 2
MaxFmtCp == 22
MaxWidth == 60

\* ----------------------------------------------------------------- helpers
None == <<>>
Some(v) == <<v>>
IsNone(o) == o = <<>>

\* Python truthiness of an optional string: None and "" are falsy
Truthy(o) == o # <<>> /\ o[1] # <<>>

RECURSIVE SeqsUpTo(_, _)
SeqsUpTo(A, n) ==
    IF n = 0 THEN {<<>>}
    ELSE LET shorter == SeqsUpTo(A, n - 1)
         IN  shorter \cup {Append(s, a) : s \in {t \in shorter : Len(t) = n - 1}, a \in A}

\* str.rfind, 1-based, 0 when absent
RFind(p, c) ==
    LET hits == {i \in 1..Len(p) : p[i] = c}
    IN  IF hits = {} THEN 0 ELSE CHOOSE i \in hits : \A j \in hits : j <= i

\* os.path.splitext: the extension starts at the last dot of the last path
\* component, unless that component has only dots before it
splitext(p) ==
    LET sepIndex == RFind(p, "/")
        dotIndex == RFind(p, ".")
        hasExt == /\ dotIndex > sepIndex
                  /\ \E k \in (sepIndex + 1)..(dotIndex - 1) : p[k] # "."
    IN  IF hasExt
        THEN [root |-> SubSeq(p, 1, dotIndex - 1), ext |-> SubSeq(p, dotIndex, Len(p))]
        ELSE [root |-> p, ext |-> <<>>]

\* str.replace(sub, ''): every occurrence of sub, left to right
RECURSIVE StrRemove(_, _)
StrRemove(s, sub) ==
    IF Len(s) < Len(sub) THEN s
    ELSE IF SubSeq(s, 1, Len(sub)) = sub
         THEN StrRemove(SubSeq(s, Len(sub) + 1, Len(s)), sub)
         ELSE <<Head(s)>> \o StrRemove(Tail(s), sub)

\* str.endswith
EndsWith(s, suffix) ==
    /\ Len(s) >= Len(suffix)
    /\ SubSeq(s, Len(s) - Len(suffix) + 1, Len(s)) = suffix

\* character codes of the characters the file names are made of
CharCode(c) ==
    CASE c = "." -> 46 [] c = "/" -> 47 [] c = "1" -> 49 [] c = "4" -> 52
      [] c = "a" -> 97 [] c = "e" -> 101 [] c = "g" -> 103 [] c = "s" -> 115
      [] c = "t" -> 116 [] c = "u" -> 117 [] c = "v" -> 118 [] c = "x" -> 120

\* str < str
RECURSIVE StrLess(_, _)
StrLess(a, b) ==
    IF b = <<>> THEN FALSE
    ELSE IF a = <<>> THEN TRUE
    ELSE IF Head(a) = Head(b) THEN StrLess(Tail(a), Tail(b))
    ELSE CharCode(Head(a)) < CharCode(Head(b))

\* sorted(names)
RECURSIVE SortedNames(_)
SortedNames(S) ==
    IF S = {} THEN <<>>
    ELSE LET least == CHOOSE a \in S : \A b \in S \ {a} : StrLess(a, b)
         IN  <<least>> \o SortedNames(S \ {least})

HexChars == <<"0", "1", "2", "3", "4", "5", "6", "7", "8", "9", "a", "b", "c", "d", "e", "f">>
IsHexChar(c) == \E i \in 1..16 : HexChars[i] = c
HexCharVal(c) == (CHOOSE i \in 1..16 : HexChars[i] = c) - 1

\* variant: the empty string is read as a number too
IsHex_or_empty(s) == \A i \in 1..Len(s) : IsHexChar(s[i])

\* int(s, 16) of a string of hexadecimal digits; anything else is a ValueError
IsHex(s) == s # <<>> /\ \A i \in 1..Len(s) : IsHexChar(s[i])
RECURSIVE HexValue(_)
HexValue(s) ==
    IF s = <<>> THEN 0
    ELSE 16 * HexValue(SubSeq(s, 1, Len(s) - 1)) + HexCharVal(s[Len(s)])

\* sorted(list(codepoint_set))
RECURSIVE SortedInts(_)
SortedInts(S) ==
    IF S = {} THEN <<>>
    ELSE LET least == CHOOSE a \in S : \A b \in S : a <= b
         IN  <<least>> \o SortedInts(S \ {least})

UpperHexChars == <<"0", "1", "2", "3", "4", "5", "6", "7", "8", "9", "A", "B", "C", "D", "E", "F">>

\* format(cp, 'X')
RECURSIVE UpperHex(_)
UpperHex(n) ==
    IF n < 16 THEN <<UpperHexChars[n + 1]>>
    ELSE UpperHex(n \div 16) \o <<UpperHexChars[(n % 16) + 1]>>

\* f"U+{cp:04X}": at least four digits, zero-padded on the left
FormatCp(cp) ==
    LET digits == UpperHex(cp)
        pad == IF Len(digits) >= 4 THEN <<>> ELSE [i \in 1..(4 - Len(digits)) |-> "0"]
    IN  <<"U", "+">> \o pad \o digits

\* The string format_codepoints returns, as the list of the pieces that ", "
\* separates: a formatted codepoint, the "... (n more)" piece, or the word for
\* none
CpItem(cp) == [kind |-> "cp", text |-> FormatCp(cp), n |-> 0]
MoreItem(n) == [kind |-> "more", text |-> <<>>, n |-> n]
NoneItem == [kind |-> "none", text |-> <<>>, n |-> 0]
JoinCps(cps) == [i \in 1..Len(cps) |-> CpItem(cps[i])]

\* font_cmap_compare.py, the function nested in compare_fonts_cmap
format_codepoints_cmap(codepoint_set) ==
    IF codepoint_set = {} THEN <<NoneItem>>
    ELSE LET sorted_codepoints == SortedInts(codepoint_set)
             len == Len(sorted_codepoints)
         IN  IF len > 20
             THEN JoinCps(SubSeq(sorted_codepoints, 1, 10))
                    \o <<MoreItem(len - 20)>>
                    \o JoinCps(SubSeq(sorted_codepoints, len - 9, len))
             ELSE JoinCps(sorted_codepoints)

\* variant: the tail slice one element longer
format_codepoints_long_tail(codepoint_set) ==
    IF codepoint_set = {} THEN <<NoneItem>>
    ELSE LET sorted_codepoints == SortedInts(codepoint_set)
             len == Len(sorted_codepoints)
         IN  IF len > 20
             THEN JoinCps(SubSeq(sorted_codepoints, 1, 10))
                    \o <<MoreItem(len - 20)>>
                    \o JoinCps(SubSeq(sorted_codepoints, len - 10, len))
             ELSE JoinCps(sorted_codepoints)

\* font_diff_checker.py, the module-level function
format_codepoints(codepoint_set) ==
    IF codepoint_set = {} THEN <<NoneItem>>
    ELSE LET sorted_codepoints == SortedInts(codepoint_set)
             len == Len(sorted_codepoints)
         IN  IF len > 20
             THEN JoinCps(SubSeq(sorted_codepoints, 1, 10))
                    \o <<MoreItem(len - 20)>>
                    \o JoinCps(SubSeq(sorted_codepoints, len - 9, len))
             ELSE JoinCps(sorted_codepoints)

\* ------------------------------------------------------------------ inputs
PathChars == {"a", ".", "/"}
Paths == SeqsUpTo(PathChars, MaxPathLen) \ {<<>>}

SUPPORTED_FORMATS == {"ttf", "otf", "woff", "woff2", "eot", "svg"}
\* what may follow -f on the command line: nothing, a choice, or anything else
FormatArgs == {None} \cup {Some(f) : f \in SUPPORTED_FORMATS \cup {"bmp"}}
OutputArgs == {None, Some(<<>>), Some(<<"o", ".", "x">>)}
FamilyArgs == {None, Some(<<>>), Some(<<"A", " ", "B">>)}
VersionArgs == {None, Some(<<"2">>)}

Scripts == {"convert_font", "optimize_glyph", "merge_svg_font",
            "font_cmap_compare", "font_diff_checker"}

\* the font as fontforge.open returns it, before the script touches it
OrigFont == [familyname |-> <<"O">>, fontname |-> <<"O">>, fullname |-> <<"O">>,
             version |-> <<"1">>]

VARIABLES
    script,      \* which script this run executes
    pc,          \* position in the script
    argv,        \* the command line as given
    env,         \* outcomes of the calls the script does not control
    args,        \* parsed arguments / parameters bound at the call
    font,        \* the font object's properties, None before it exists
    events,      \* library and file-system calls made so far, in order
    console,     \* messages printed so far
    written,     \* paths of the files written by font.generate
    ret,         \* return value of the script's main function, None before
    exitStatus,  \* process exit status, -1 while running
    \* optimize_glyph.py, FontOptimizer.process_font
    glyphIdx,    \* index of the glyph of the current iteration, 0 before the loop
    opIdx,       \* operations of process_glyph completed on the current glyph
    trace,       \* operations started on the current glyph, in order
    attempted,   \* glyph indices handed to process_glyph, in order
    failed,      \* glyph indices whose process_glyph raised
    saveCalls,   \* number of calls of _save_font
    \* merge_svg_font.py, create_svg_font
    entries,     \* sorted(os.listdir(input_dir)), None before it is read
    fileIdx,     \* directory entries the loop has finished with
    processed,   \* the counter processed
    errors,      \* the counter errors
    created,     \* codepoints for which font.createChar returned a glyph
    \* font_cmap_compare.py and font_diff_checker.py
    openFonts,         \* TTFont objects opened and not closed
    old_codepoints,    \* None until extracted
    new_codepoints,
    added_codepoints,
    removed_codepoints,
    changed_outlines,
    changed_metrics,
    warned,            \* <<pass, codepoint>> of the per-codepoint warnings printed
    compared,          \* <<pass, codepoint>> of the comparisons made
    report             \* the lists printed, as format_codepoints returned them

runVars == <<script, argv, env>>
ogVars == <<glyphIdx, opIdx, trace, attempted, failed, saveCalls>>
msVars == <<entries, fileIdx, processed, errors, created>>
cmpVars == <<openFonts, old_codepoints, new_codepoints, added_codepoints,
             removed_codepoints, changed_outlines, changed_metrics, warned, compared, report>>
notCF == <<ogVars, msVars, cmpVars>>
notOG == <<msVars, cmpVars>>
notMS == <<ogVars, cmpVars>>
notCMP == <<ogVars, msVars>>
vars == <<script, pc, argv, env, args, font, events, console, written, ret, exitStatus,
          glyphIdx, opIdx, trace, attempted, failed, saveCalls,
          entries, fileIdx, processed, errors, created,
          openFonts, old_codepoints, new_codepoints, added_codepoints,
          removed_codepoints, changed_outlines, changed_metrics, warned, compared, report>>

\* ---------------------------------------------------------- convert_font.py
CF_Argv == [input : Paths, output : OutputArgs, format : FormatArgs,
            family_name : FamilyArgs, version : VersionArgs]
\* inputSize is os.path.getsize(input_path); it is 0 for what fontforge opens
\* from a directory (.sfdir, .ufo) where the system reports no size for one
CF_Env == {[inputExists |-> FALSE, inputSize |-> 0]}
            \cup {[inputExists |-> TRUE, inputSize |-> n] : n \in {0, 2}}

\* variant: another default format
ParseFormat_ttf(f) == IF IsNone(f) THEN "ttf" ELSE f[1]

\* argparse: -f has choices and default 'woff2'
ParseFormat(f) == IF IsNone(f) THEN "woff2" ELSE f[1]

\* the positional call in __main__ binds its 4th and 5th arguments to the 4th
\* and 5th parameters of convert_font
BindConvertArgs(a) ==
    [input_path |-> a.input, output_path |-> a.output,
     format_type |-> ParseFormat(a.format),
     optimization |-> a.family_name, family_name |-> a.version, version |-> None]

CF_Main ==
    /\ script = "convert_font" /\ pc = "main"
    /\ IF ~IsNone(argv.format) /\ argv.format[1] \notin SUPPORTED_FORMATS
       THEN \* parser.parse_args() exits with status 2
            /\ pc' = "exited" /\ exitStatus' = 2
            /\ console' = console \cup {"argparse: invalid choice"}
            /\ UNCHANGED args
       ELSE /\ args' = BindConvertArgs(argv)
            /\ pc' = "cf_exists"
            /\ UNCHANGED <<exitStatus, console>>
    /\ UNCHANGED <<runVars, notCF, font, events, written, ret>>

\* variant: the input is opened without the existence test
CF_CheckInput_unchecked ==
    /\ script = "convert_font" /\ pc = "cf_exists"
    /\ events' = Append(events, [op |-> "exists", path |-> args.input_path])
    /\ pc' = "cf_open"
    /\ UNCHANGED <<runVars, notCF, args, font, written, exitStatus, ret, console>>

CF_CheckInput ==
    /\ script = "convert_font" /\ pc = "cf_exists"
    /\ events' = Append(events, [op |-> "exists", path |-> args.input_path])
    /\ IF env.inputExists
       THEN pc' = "cf_open" /\ UNCHANGED <<ret, console>>
       ELSE /\ pc' = "cf_returned" /\ ret' = Some(FALSE)
            /\ console' = console \cup {"convert: error"}
    /\ UNCHANGED <<runVars, notCF, args, font, written, exitStatus>>

CF_Open ==
    /\ script = "convert_font" /\ pc = "cf_open"
    /\ events' = Append(events, [op |-> "open", path |-> args.input_path])
    /\ \E raises \in BOOLEAN :
         IF raises
         THEN /\ pc' = "cf_returned" /\ ret' = Some(FALSE)
              /\ console' = console \cup {"convert: error"}
              /\ UNCHANGED <<font, args>>
         ELSE /\ font' = Some(OrigFont)
              /\ args' = IF ~Truthy(args.output_path)
                         THEN [args EXCEPT !.output_path =
                                 Some(splitext(args.input_path).root \o <<".", args.format_type>>)]
                         ELSE args
              /\ pc' = "cf_setup"
              /\ UNCHANGED <<ret, console>>
    /\ UNCHANGED <<runVars, notCF, written, exitStatus>>

setup_font_properties(f, family_name, version) ==
    LET f1 == IF Truthy(family_name)
              THEN [f EXCEPT !.familyname = family_name[1],
                             !.fontname = StrRemove(family_name[1], <<" ">>),
                             !.fullname = family_name[1]]
              ELSE f
    IN  IF Truthy(version) THEN [f1 EXCEPT !.version = version[1]] ELSE f1

CF_Setup ==
    /\ script = "convert_font" /\ pc = "cf_setup"
    /\ font' = Some(setup_font_properties(font[1], args.family_name, args.version))
    /\ events' = Append(events, [op |-> "setprops", path |-> <<>>])
    /\ pc' = "cf_generate"
    /\ UNCHANGED <<runVars, notCF, args, console, written, ret, exitStatus>>

CF_Generate ==
    /\ script = "convert_font" /\ pc = "cf_generate"
    /\ events' = Append(events, [op |-> "generate", path |-> args.output_path[1]])
    /\ \E raises \in BOOLEAN :
         IF raises
         THEN /\ pc' = "cf_returned" /\ ret' = Some(FALSE)
              /\ console' = console \cup {"convert: error"}
              /\ UNCHANGED written
         ELSE /\ written' = written \cup {args.output_path[1]}
              /\ pc' = "cf_report"
              /\ UNCHANGED <<ret, console>>
    /\ UNCHANGED <<runVars, notCF, args, font, exitStatus>>

\* the sizes and their ratio: output_size / input_size raises
\* ZeroDivisionError for an input of size 0, inside the same try statement
CF_Report ==
    /\ script = "convert_font" /\ pc = "cf_report"
    /\ events' = Append(events, [op |-> "getsize", path |-> args.output_path[1]])
    /\ IF env.inputSize = 0
       THEN console' = console \cup {"convert: error"} /\ ret' = Some(FALSE)
       ELSE console' = console \cup {"convert: saved"} /\ ret' = Some(TRUE)
    /\ pc' = "cf_returned"
    /\ UNCHANGED <<runVars, notCF, args, font, written, exitStatus>>

\* __main__ drops convert_font's result, waits for Enter and falls off the end
CF_Exit ==
    /\ script = "convert_font" /\ pc = "cf_returned"
    /\ pc' = "exited" /\ exitStatus' = 0
    /\ UNCHANGED <<runVars, notCF, args, font, events, console, written, ret>>

\* -------------------------------------------------------- optimize_glyph.py
SimplifyArgs == {None, Some(10), Some(25)}
OG_Argv == [font_file : {None} \cup {Some(p) : p \in Paths}, simplify : SimplifyArgs]
OG_Env == [nGlyphs : 0..MaxGlyphs]

\* argparse: -s has type float and default 0.5
ParseSimplify(s) == IF IsNone(s) THEN 5 ELSE s[1]

\* one library call on a glyph; tol is simplify's first argument in tenths
\* (0 when the call has none), user says that it is self.simplify_value
GOp(name, tol, user) == [op |-> name, tol |-> tol, user |-> user]

\* variant: the last two operations the other way round
optimize_glyph_extension_swapped ==
    << GOp("simplify", 5, FALSE), GOp("width", 0, FALSE), GOp("balance", 0, FALSE),
       GOp("autoHint", 0, FALSE), GOp("simplify", 10, FALSE), GOp("cluster", 0, FALSE),
       GOp("removeOverlap", 0, FALSE), GOp("round", 0, FALSE), GOp("simplify", 10, FALSE) >>

optimize_glyph_extension ==
    << GOp("simplify", 5, FALSE), GOp("width", 0, FALSE), GOp("balance", 0, FALSE),
       GOp("autoHint", 0, FALSE), GOp("simplify", 10, FALSE), GOp("cluster", 0, FALSE),
       GOp("removeOverlap", 0, FALSE), GOp("simplify", 10, FALSE), GOp("round", 0, FALSE) >>

process_glyph(simplify_value) ==
    << GOp("process_compound_glyph", 0, FALSE), GOp("simplify", 1, FALSE),
       GOp("process_line_endpoints", 0, FALSE), GOp("simplify", simplify_value, TRUE),
       GOp("canonicalContours", 0, FALSE), GOp("canonicalStart", 0, FALSE),
       GOp("removeOverlap", 0, FALSE), GOp("correctDirection", 0, FALSE),
       GOp("simplify", simplify_value, TRUE), GOp("round", 0, FALSE),
       GOp("autoHint", 0, FALSE) >> \o optimize_glyph_extension

\* variant: the suffix after the extension
MergeGlyphsPath_appended(input_file) == input_file \o <<"_merge_glyphs">>

\* _save_font's output path
MergeGlyphsPath(input_file) ==
    LET parts == splitext(input_file)
    IN  parts.root \o <<"_merge_glyphs">> \o parts.ext

\* variant: the handler leaves the loop
AfterGlyphError_break == "og_save"

\* where process_font goes on after a glyph raised: continue
AfterGlyphError == "og_loop"

\* variant: the loop stops one glyph early
MoreGlyphs_short(index, total_glyphs) == index + 1 < total_glyphs

\* enumerate(glyphs) has a glyph after the first index ones
MoreGlyphs(index, total_glyphs) == index < total_glyphs

OG_Main ==
    /\ script = "optimize_glyph" /\ pc = "main"
    /\ IF ~Truthy(argv.font_file)
       THEN \* usage text, input(), sys.exit(1)
            /\ pc' = "exited" /\ exitStatus' = 1
            /\ console' = console \cup {"optimize: no font selected"}
            /\ UNCHANGED args
       ELSE /\ args' = [font_file |-> argv.font_file[1],
                        simplify_value |-> ParseSimplify(argv.simplify)]
            /\ pc' = "og_open"
            /\ UNCHANGED <<exitStatus, console>>
    /\ UNCHANGED <<runVars, notOG, ogVars, font, events, written, ret>>

\* process_font up to the loop: open, list the glyphs, give up on none
OG_Open ==
    /\ script = "optimize_glyph" /\ pc = "og_open"
    /\ events' = Append(events, [op |-> "open", path |-> args.font_file])
    /\ \E raises \in BOOLEAN :
         IF raises
         THEN /\ ret' = Some(None) /\ pc' = "og_returned"
              /\ console' = console \cup {"optimize: cannot open"}
              /\ UNCHANGED font
         ELSE /\ font' = Some(OrigFont)
              /\ IF env.nGlyphs = 0
                 THEN /\ ret' = Some(None) /\ pc' = "og_returned"
                      /\ console' = console \cup {"optimize: no glyphs"}
                 ELSE pc' = "og_loop" /\ UNCHANGED <<ret, console>>
    /\ UNCHANGED <<runVars, notOG, ogVars, args, written, exitStatus>>

\* the for statement: take the next glyph or leave the loop
OG_NextGlyph ==
    /\ script = "optimize_glyph" /\ pc = "og_loop"
    /\ IF MoreGlyphs(glyphIdx, env.nGlyphs)
       THEN /\ glyphIdx' = glyphIdx + 1
            /\ attempted' = Append(attempted, glyphIdx + 1)
            /\ events' = Append(events, [op |-> "glyph", path |-> <<>>])
            /\ opIdx' = 0 /\ trace' = <<>>
            /\ pc' = "og_glyph"
       ELSE /\ pc' = "og_save"
            /\ UNCHANGED <<glyphIdx, attempted, opIdx, trace, events>>
    /\ UNCHANGED <<runVars, notOG, failed, saveCalls, args, font, console,
                   written, ret, exitStatus>>

\* one operation of process_glyph on the current glyph; it returns or raises,
\* and the handler of process_font turns a raise into the next iteration
OG_GlyphOp ==
    /\ script = "optimize_glyph" /\ pc = "og_glyph"
    /\ LET ops == process_glyph(args.simplify_value)
           op == ops[opIdx + 1]
       IN  /\ trace' = Append(trace, op)
           /\ \E raises \in BOOLEAN :
                IF raises
                THEN /\ failed' = failed \cup {glyphIdx}
                     /\ console' = console \cup {"optimize: glyph error"}
                     /\ pc' = AfterGlyphError
                     /\ UNCHANGED opIdx
                ELSE /\ opIdx' = opIdx + 1
                     /\ pc' = IF opIdx + 1 = Len(ops) THEN "og_loop" ELSE "og_glyph"
                     /\ UNCHANGED <<failed, console>>
    /\ UNCHANGED <<runVars, notOG, glyphIdx, attempted, saveCalls, args, font,
                   events, written, ret, exitStatus>>

OG_SaveFont ==
    /\ script = "optimize_glyph" /\ pc = "og_save"
    /\ saveCalls' = saveCalls + 1
    /\ LET output_file == MergeGlyphsPath(args.font_file)
       IN  /\ events' = Append(events, [op |-> "generate", path |-> output_file])
           /\ \E raises \in BOOLEAN :
                IF raises
                THEN /\ ret' = Some(None)
                     /\ console' = console \cup {"optimize: save failed"}
                     /\ UNCHANGED written
                ELSE /\ ret' = Some(Some(output_file))
                     /\ written' = written \cup {output_file}
                     /\ UNCHANGED console
    /\ pc' = "og_returned"
    /\ UNCHANGED <<runVars, notOG, glyphIdx, opIdx, trace, attempted, failed, args,
                   font, exitStatus>>

\* main logs success or failure and returns; the interpreter exits with 0
OG_Exit ==
    /\ script = "optimize_glyph" /\ pc = "og_returned"
    /\ console' = console \cup {IF Truthy(ret[1]) THEN "optimize: done" ELSE "optimize: failed"}
    /\ pc' = "exited" /\ exitStatus' = 0
    /\ UNCHANGED <<runVars, notOG, ogVars, args, font, events, written, ret>>

\* -------------------------------------------------------- merge_svg_font.py
DotSvg == <<".", "s", "v", "g">>
\* u41.svg, 4e.svg, x.svg, u.svg, a.txt
FileNames == { <<"u", "4", "1">> \o DotSvg, <<"4", "e">> \o DotSvg, <<"x">> \o DotSvg,
               <<"u">> \o DotSvg, <<"a", ".", "t", "x", "t">> }
MS_Argv == [input_dir : {None, Some(<<"a">>)}, output_font : {None, Some(<<"a", ".", "s">>)},
            font_name : {None, Some(<<"N">>)}]
MS_Env == [dirExists : BOOLEAN,
           listing : {S \in SUBSET FileNames : Cardinality(S) <= MaxEntries}]

MS_Main ==
    /\ script = "merge_svg_font" /\ pc = "main"
    /\ args' = [input_dir |-> IF IsNone(argv.input_dir) THEN <<"input_dir">>
                              ELSE argv.input_dir[1],
                output_font |-> IF IsNone(argv.output_font) THEN <<"output_font.svg">>
                                ELSE argv.output_font[1],
                font_name |-> IF IsNone(argv.font_name) THEN <<"CustomFont">>
                              ELSE argv.font_name[1]]
    /\ pc' = "ms_exists"
    /\ UNCHANGED <<runVars, notMS, msVars, font, events, console, written, ret, exitStatus>>

MS_CheckDir ==
    /\ script = "merge_svg_font" /\ pc = "ms_exists"
    /\ events' = Append(events, [op |-> "exists", path |-> args.input_dir])
    /\ IF env.dirExists
       THEN pc' = "ms_font" /\ UNCHANGED <<console, exitStatus>>
       ELSE /\ console' = console \cup {"merge: error creating font"}
            /\ pc' = "exited" /\ exitStatus' = 1
    /\ UNCHANGED <<runVars, notMS, msVars, args, font, written, ret>>

\* fontforge.font(), the names, the counters and the directory listing
MS_CreateFont ==
    /\ script = "merge_svg_font" /\ pc = "ms_font"
    /\ font' = Some([fontname |-> args.font_name, familyname |-> args.font_name,
                     fullname |-> args.font_name, version |-> <<>>])
    /\ events' = events \o << [op |-> "font", path |-> <<>>],
                              [op |-> "setprops", path |-> <<>>],
                              [op |-> "listdir", path |-> args.input_dir] >>
    /\ processed' = 0 /\ errors' = 0
    /\ entries' = Some(SortedNames(env.listing))
    /\ pc' = "ms_loop"
    /\ UNCHANGED <<runVars, notMS, fileIdx, created, args, console, written, ret, exitStatus>>

\* one iteration of the directory loop; the library calls on the glyph return,
\* or createChar raises, or a call after it raises
MS_File ==
    /\ script = "merge_svg_font" /\ pc = "ms_loop"
    /\ fileIdx < Len(entries[1])
    /\ fileIdx' = fileIdx + 1
    /\ LET filename == entries[1][fileIdx + 1]
           unicode_str == StrRemove(StrRemove(filename, <<"u">>), DotSvg)
       IN  IF ~EndsWith(filename, DotSvg)
           THEN UNCHANGED <<processed, errors, created, events, console>>
           ELSE IF ~IsHex(unicode_str)
           THEN /\ errors' = errors + 1
                /\ console' = console \cup {"merge: invalid unicode value"}
                /\ UNCHANGED <<processed, created, events>>
           ELSE \E outcome \in {"ok", "createChar raises", "glyph call raises"} :
                  /\ events' = Append(events, [op |-> "glyph", path |-> filename])
                  /\ created' = IF outcome = "createChar raises" THEN created
                                ELSE created \cup {HexValue(unicode_str)}
                  /\ IF outcome = "ok"
                     THEN processed' = processed + 1 /\ UNCHANGED <<errors, console>>
                     ELSE /\ errors' = errors + 1
                          /\ console' = console \cup {"merge: error processing"}
                          /\ UNCHANGED processed
    /\ UNCHANGED <<runVars, notMS, entries, pc, args, font, written, ret, exitStatus>>

\* after the loop: ascent, descent, em, font.generate and the summary
MS_Generate ==
    /\ script = "merge_svg_font" /\ pc = "ms_loop"
    /\ fileIdx = Len(entries[1])
    /\ events' = events \o << [op |-> "setprops", path |-> <<>>],
                              [op |-> "generate", path |-> args.output_font] >>
    /\ \E raises \in BOOLEAN :
         IF raises
         THEN /\ console' = console \cup {"merge: error creating font"}
              /\ pc' = "exited" /\ exitStatus' = 1
              /\ UNCHANGED <<written, ret>>
         ELSE /\ written' = written \cup {args.output_font}
              /\ console' = console \cup {"merge: complete"}
              /\ ret' = Some(None)
              /\ pc' = "ms_returned"
              /\ UNCHANGED exitStatus
    /\ UNCHANGED <<runVars, notMS, msVars, args, font>>

MS_Exit ==
    /\ script = "merge_svg_font" /\ pc = "ms_returned"
    /\ pc' = "exited" /\ exitStatus' = 0
    /\ UNCHANGED <<runVars, notMS, msVars, args, font, events, console, written, ret>>

\* ----------------------------------------------------- font_cmap_compare.py
Codepoints == 0..MaxCp
CMP_Argv == {[old_font |-> <<"a">>, new_font |-> <<"a", "a">>]}
\* a font file as fontTools reads it: has it a cmap table, and the codepoints
\* of each of the cmap's subtables
CC_Font == {[hasCmap |-> FALSE, tables |-> <<>>]}
              \cup {[hasCmap |-> TRUE, tables |-> <<S>>] : S \in SUBSET Codepoints}
              \cup {[hasCmap |-> TRUE, tables |-> <<{0}, {MaxCp}>>]}
CC_Env == [oldExists : BOOLEAN, newExists : BOOLEAN, old : CC_Font, new : CC_Font]

\* the union of the first k subtables
TablesUnion(tables, k) == UNION {tables[i] : i \in 1..k}

\* get_unicode_codepoints(font_path): TTFont raises, or the font has no cmap,
\* or something raises after k subtables were read and before font.close()
\* returned, or everything is read and the font closed.  still_open says
\* whether the TTFont is left open.
get_unicode_codepoints_cmap(f, outcome, k) ==
    IF outcome = "open raises" THEN [codepoints |-> {}, still_open |-> FALSE]
    ELSE IF ~f.hasCmap THEN [codepoints |-> {}, still_open |-> TRUE]
    ELSE IF outcome = "read raises"
         THEN [codepoints |-> TablesUnion(f.tables, k), still_open |-> TRUE]
    ELSE [codepoints |-> TablesUnion(f.tables, Len(f.tables)), still_open |-> FALSE]

ReadOutcomes == {"ok", "open raises", "read raises"}

\* variant: only the added codepoints are looked at
IdenticalCmaps_added(added, removed) == added = {}

\* the test that selects the closing message of compare_fonts_cmap
IdenticalCmaps(added, removed) == added = {} /\ removed = {}

CC_Main ==
    /\ script = "font_cmap_compare" /\ pc = "main"
    /\ args' = [old_font_path |-> argv.old_font, new_font_path |-> argv.new_font]
    /\ pc' = "cc_exists"
    /\ UNCHANGED <<runVars, notCMP, cmpVars, font, events, console, written, ret, exitStatus>>

\* the two os.path.exists tests
CC_CheckFiles ==
    /\ script = "font_cmap_compare" /\ pc = "cc_exists"
    /\ IF ~env.oldExists
       THEN /\ events' = Append(events, [op |-> "exists", path |-> args.old_font_path])
            /\ console' = console \cup {"compare: old font missing"}
            /\ ret' = Some(None) /\ pc' = "cc_returned"
       ELSE /\ events' = events \o << [op |-> "exists", path |-> args.old_font_path],
                                     [op |-> "exists", path |-> args.new_font_path] >>
            /\ IF ~env.newExists
               THEN /\ console' = console \cup {"compare: new font missing"}
                    /\ ret' = Some(None) /\ pc' = "cc_returned"
               ELSE pc' = "cc_old" /\ UNCHANGED <<console, ret>>
    /\ UNCHANGED <<runVars, notCMP, cmpVars, args, font, written, exitStatus>>

CC_GetOld ==
    /\ script = "font_cmap_compare" /\ pc = "cc_old"
    /\ \E outcome \in ReadOutcomes, k \in 0..Len(env.old.tables) :
         LET r == get_unicode_codepoints_cmap(env.old, outcome, k)
         IN  /\ old_codepoints' = Some(r.codepoints)
             /\ openFonts' = IF r.still_open THEN openFonts \cup {"old"} ELSE openFonts
             /\ events' = Append(events, [op |-> "open", path |-> args.old_font_path])
    /\ pc' = "cc_new"
    /\ UNCHANGED <<runVars, notCMP, new_codepoints, added_codepoints, removed_codepoints,
                   changed_outlines, changed_metrics, warned, compared, report, args, font,
                   console, written, ret, exitStatus>>

CC_GetNew ==
    /\ script = "font_cmap_compare" /\ pc = "cc_new"
    /\ \E outcome \in ReadOutcomes, k \in 0..Len(env.new.tables) :
         LET r == get_unicode_codepoints_cmap(env.new, outcome, k)
         IN  /\ new_codepoints' = Some(r.codepoints)
             /\ openFonts' = IF r.still_open THEN openFonts \cup {"new"} ELSE openFonts
             /\ events' = Append(events, [op |-> "open", path |-> args.new_font_path])
    /\ pc' = "cc_diff"
    /\ UNCHANGED <<runVars, notCMP, old_codepoints, added_codepoints, removed_codepoints,
                   changed_outlines, changed_metrics, warned, compared, report, args, font,
                   console, written, ret, exitStatus>>

\* the differences, the two lists and the closing message
CC_Diff ==
    /\ script = "font_cmap_compare" /\ pc = "cc_diff"
    /\ LET added == new_codepoints[1] \ old_codepoints[1]
           removed == old_codepoints[1] \ new_codepoints[1]
       IN  /\ added_codepoints' = Some(added)
           /\ removed_codepoints' = Some(removed)
           /\ report' = [k \in {"added", "removed"} |->
                           IF k = "added" THEN format_codepoints_cmap(added)
                           ELSE format_codepoints_cmap(removed)]
           /\ console' = console \cup
                           {IF IdenticalCmaps(added, removed) THEN "compare: cmap identical"
                            ELSE "compare: difference analysis complete"}
    /\ ret' = Some(None) /\ pc' = "cc_returned"
    /\ UNCHANGED <<runVars, notCMP, openFonts, old_codepoints, new_codepoints,
                   changed_outlines, changed_metrics, warned, compared, args, font, events,
                   written, exitStatus>>

CC_Exit ==
    /\ script = "font_cmap_compare" /\ pc = "cc_returned"
    /\ pc' = "exited" /\ exitStatus' = 0
    /\ UNCHANGED <<runVars, notCMP, cmpVars, args, font, events, console, written, ret>>

\* ----------------------------------------------------- font_diff_checker.py
\* A font as fontTools reads it.  Every codepoint maps to a glyph of its own,
\* named by the codepoint: best is the key set of getBestCmap(), outline and
\* metrics are the glyph set and the hmtx table, defined on the glyphs they
\* hold.
GlyphStates == {"same", "outline", "metrics", "missing"}

DC_OldFont(o) ==
    [hasCmap |-> TRUE, tables |-> <<o>>, best |-> o, hasOutlines |-> TRUE,
     hasHmtx |-> TRUE, outline |-> [c \in o |-> 0], metrics |-> [c \in o |-> <<5, 0>>]]

\* the new font: g says how the glyph of each common codepoint differs, one
\* codepoint may be mapped by a subtable other than the best one
DC_NewFont(n, g, omit, hasOutlines, hasHmtx) ==
    LET St(c) == IF c \in DOMAIN g THEN g[c] ELSE "same"
        held == {c \in n : St(c) # "missing"}
    IN  [hasCmap |-> TRUE, tables |-> <<n>>,
         best |-> IF omit THEN n \ {0} ELSE n,
         hasOutlines |-> hasOutlines, hasHmtx |-> hasHmtx,
         outline |-> [c \in held |-> IF St(c) = "outline" THEN 1 ELSE 0],
         metrics |-> [c \in held |-> IF St(c) # "metrics" THEN <<5, 0>>
                                     ELSE IF c % 2 = 0 THEN <<6, 0>> ELSE <<5, 1>>]]

DC_NoCmapFont ==
    [hasCmap |-> FALSE, tables |-> <<>>, best |-> {}, hasOutlines |-> TRUE,
     hasHmtx |-> TRUE, outline |-> <<>>, metrics |-> <<>>]

DC_FontPairs ==
    UNION { { <<DC_OldFont(on[1]), DC_NewFont(on[2], g, omit, ho, hh)>> :
                g \in [on[1] \cap on[2] -> GlyphStates],
                omit \in BOOLEAN, ho \in BOOLEAN, hh \in BOOLEAN } :
            on \in (SUBSET Codepoints) \X (SUBSET Codepoints) }
      \cup { <<DC_NoCmapFont, DC_OldFont({0})>>, <<DC_OldFont({0}), DC_NoCmapFont>> }

DC_Env ==
    { [oldExists |-> TRUE, newExists |-> TRUE, old |-> p[1], new |-> p[2]] :
        p \in DC_FontPairs }
      \cup { [oldExists |-> e[1], newExists |-> e[2], old |-> DC_OldFont({}),
              new |-> DC_OldFont({})] :
               e \in {<<FALSE, TRUE>>, <<TRUE, FALSE>>, <<FALSE, FALSE>>} }

\* get_unicode_codepoints(font) of an open font
get_unicode_codepoints(f) ==
    IF ~f.hasCmap THEN {} ELSE TablesUnion(f.tables, Len(f.tables))

DC_Main ==
    /\ script = "font_diff_checker" /\ pc = "main"
    /\ args' = [old_font_path |-> argv.old_font, new_font_path |-> argv.new_font]
    /\ pc' = "dc_exists"
    /\ UNCHANGED <<runVars, notCMP, cmpVars, font, events, console, written, ret, exitStatus>>

DC_CheckFiles ==
    /\ script = "font_diff_checker" /\ pc = "dc_exists"
    /\ IF ~env.oldExists
       THEN /\ events' = Append(events, [op |-> "exists", path |-> args.old_font_path])
            /\ console' = console \cup {"compare: old font missing"}
            /\ ret' = Some(None) /\ pc' = "dc_returned"
       ELSE /\ events' = events \o << [op |-> "exists", path |-> args.old_font_path],
                                     [op |-> "exists", path |-> args.new_font_path] >>
            /\ IF ~env.newExists
               THEN /\ console' = console \cup {"compare: new font missing"}
                    /\ ret' = Some(None) /\ pc' = "dc_returned"
               ELSE pc' = "dc_load" /\ UNCHANGED <<console, ret>>
    /\ UNCHANGED <<runVars, notCMP, cmpVars, args, font, written, exitStatus>>

\* the try statement that opens both fonts
DC_Load ==
    /\ script = "font_diff_checker" /\ pc = "dc_load"
    /\ \E outcome \in {"ok", "old raises", "new raises"} :
         /\ events' = IF outcome = "old raises"
                      THEN Append(events, [op |-> "open", path |-> args.old_font_path])
                      ELSE events \o << [op |-> "open", path |-> args.old_font_path],
                                        [op |-> "open", path |-> args.new_font_path] >>
         /\ openFonts' = CASE outcome = "ok" -> {"old", "new"}
                           [] outcome = "old raises" -> {}
                           [] outcome = "new raises" -> {"old"}
         /\ IF outcome = "ok"
            THEN pc' = "dc_cmap" /\ UNCHANGED <<console, ret>>
            ELSE /\ console' = console \cup {"compare: cannot load"}
                 /\ ret' = Some(None) /\ pc' = "dc_returned"
    /\ UNCHANGED <<runVars, notCMP, old_codepoints, new_codepoints, added_codepoints,
                   removed_codepoints, changed_outlines, changed_metrics, warned, compared,
                   report, args, font, written, exitStatus>>

\* the codepoints of both fonts, the differences and their two lists
DC_Cmap ==
    /\ script = "font_diff_checker" /\ pc = "dc_cmap"
    /\ LET old == get_unicode_codepoints(env.old)
           new == get_unicode_codepoints(env.new)
       IN  /\ old_codepoints' = Some(old)
           /\ new_codepoints' = Some(new)
           /\ added_codepoints' = Some(new \ old)
           /\ removed_codepoints' = Some(old \ new)
           /\ report' = [k \in {"added", "removed"} |->
                           IF k = "added" THEN format_codepoints(new \ old)
                           ELSE format_codepoints(old \ new)]
    /\ console' = console \cup {IF env.old.hasCmap /\ env.new.hasCmap THEN "compare: extracted"
                                ELSE "compare: no cmap table"}
    /\ pc' = "dc_outlines"
    /\ UNCHANGED <<runVars, notCMP, openFonts, changed_outlines, changed_metrics, warned, compared,
                   args, font, events, written, ret, exitStatus>>

\* getBestCmap of both fonts and the outline pass over the common codepoints;
\* a font without a cmap table makes getBestCmap raise KeyError, which nothing
\* catches
DC_Outlines ==
    /\ script = "font_diff_checker" /\ pc = "dc_outlines"
    /\ IF ~env.old.hasCmap \/ ~env.new.hasCmap
       THEN /\ console' = console \cup {"traceback"}
            /\ pc' = "exited" /\ exitStatus' = 1
            /\ UNCHANGED <<changed_outlines, warned, compared>>
       ELSE LET common_codepoints == old_codepoints[1] \cap new_codepoints[1]
                mapped == {c \in common_codepoints : c \in env.old.best /\ c \in env.new.best}
                held == {c \in mapped : c \in DOMAIN env.old.outline
                                          /\ c \in DOMAIN env.new.outline}
            IN  /\ pc' = "dc_metrics" /\ UNCHANGED exitStatus
                /\ IF ~env.old.hasOutlines \/ ~env.new.hasOutlines
                   THEN /\ console' = console \cup {"compare: no outline data"}
                        /\ UNCHANGED <<changed_outlines, warned, compared>>
                   ELSE /\ changed_outlines' =
                             {c \in held : env.old.outline[c] # env.new.outline[c]}
                        /\ warned' = warned \cup {<<"outline", c>> : c \in mapped \ held}
                        /\ compared' = compared \cup {<<"outline", c>> : c \in held}
                        /\ UNCHANGED console
    /\ UNCHANGED <<runVars, notCMP, openFonts, old_codepoints, new_codepoints,
                   added_codepoints, removed_codepoints, changed_metrics, report,
                   args, font, events, written, ret>>

\* the metrics pass over the common codepoints
DC_Metrics ==
    /\ script = "font_diff_checker" /\ pc = "dc_metrics"
    /\ LET common_codepoints == old_codepoints[1] \cap new_codepoints[1]
           mapped == {c \in common_codepoints : c \in env.old.best /\ c \in env.new.best}
           held == {c \in mapped : c \in DOMAIN env.old.metrics
                                     /\ c \in DOMAIN env.new.metrics}
       IN  IF ~env.old.hasHmtx \/ ~env.new.hasHmtx
           THEN /\ console' = console \cup {"compare: no metrics data"}
                /\ UNCHANGED <<changed_metrics, warned, compared>>
           ELSE /\ changed_metrics' =
                     {c \in held : env.old.metrics[c][1] # env.new.metrics[c][1]
                                     \/ env.old.metrics[c][2] # env.new.metrics[c][2]}
                /\ warned' = warned \cup {<<"metrics", c>> : c \in mapped \ held}
                /\ compared' = compared \cup {<<"metrics", c>> : c \in held}
                /\ UNCHANGED console
    /\ pc' = "dc_summary"
    /\ UNCHANGED <<runVars, notCMP, openFonts, old_codepoints, new_codepoints,
                   added_codepoints, removed_codepoints, changed_outlines, report,
                   args, font, events, written, ret, exitStatus>>

\* the two lists of changes, the closing message and the two close() calls
DC_Summary ==
    /\ script = "font_diff_checker" /\ pc = "dc_summary"
    /\ report' = [k \in {"added", "removed", "outlines", "metrics"} |->
                    CASE k = "outlines" -> format_codepoints(changed_outlines)
                      [] k = "metrics" -> format_codepoints(changed_metrics)
                      [] OTHER -> report[k]]
    /\ console' = console \cup
                    {IF /\ added_codepoints[1] = {} /\ removed_codepoints[1] = {}
                        /\ changed_outlines = {} /\ changed_metrics = {}
                     THEN "compare: fonts identical"
                     ELSE "compare: change analysis complete"}
    /\ openFonts' = (openFonts \ {"old"}) \ {"new"}
    /\ ret' = Some(None) /\ pc' = "dc_returned"
    /\ UNCHANGED <<runVars, notCMP, old_codepoints, new_codepoints, added_codepoints,
                   removed_codepoints, changed_outlines, changed_metrics, warned, compared,
                   args, font, events, written, exitStatus>>

DC_Exit ==
    /\ script = "font_diff_checker" /\ pc = "dc_returned"
    /\ pc' = "exited" /\ exitStatus' = 0
    /\ UNCHANGED <<runVars, notCMP, cmpVars, args, font, events, console, written, ret>>

\* ------------------------------------------ format_codepoints on large sets
\* the two copies of format_codepoints applied to one argument
FmtSets ==
    { ((lo..hi) \ holes) \cup extra :
        lo \in {0, 3}, hi \in 0..MaxFmtCp, holes \in {{}, {5}, {4, 11}},
        extra \in {{}, {128512}} }

FMT_Cmap ==
    /\ script = "format_codepoints" /\ "cmap" \notin DOMAIN report
    /\ report' = [k \in DOMAIN report \cup {"cmap"} |->
                    IF k = "cmap" THEN format_codepoints_cmap(argv) ELSE report[k]]
    /\ UNCHANGED <<runVars, pc, args, font, events, console, written, ret, exitStatus,
                   ogVars, msVars, openFonts, old_codepoints, new_codepoints,
                   added_codepoints, removed_codepoints, changed_outlines,
                   changed_metrics, warned, compared>>

FMT_Diff ==
    /\ script = "format_codepoints" /\ "diff" \notin DOMAIN report
    /\ report' = [k \in DOMAIN report \cup {"diff"} |->
                    IF k = "diff" THEN format_codepoints(argv) ELSE report[k]]
    /\ UNCHANGED <<runVars, pc, args, font, events, console, written, ret, exitStatus,
                   ogVars, msVars, openFonts, old_codepoints, new_codepoints,
                   added_codepoints, removed_codepoints, changed_outlines,
                   changed_metrics, warned, compared>>

\* ------------------------------------------- the advance width of a glyph
\* variant: halves rounded up
PyRound_half_up(n, d) == IF 2 * (n % d) >= d THEN (n \div d) + 1 ELSE n \div d

\* round(n / d) for integers n >= 0 and d > 0: Python 3 rounds a half to the
\* even neighbour
PyRound(n, d) ==
    LET q == n \div d
        r == n % d
    IN  IF 2 * r < d THEN q
        ELSE IF 2 * r > d THEN q + 1
        ELSE IF q % 2 = 0 THEN q ELSE q + 1

\* int(round(glyph.width / 10.0) * 10)
SnapWidth(width) == PyRound(width, 10) * 10

\* glyph.width = int(round(glyph.width / 10.0) * 10), on a glyph whose width
\* is argv at first; trace lists the widths assigned
GW_SetWidth ==
    /\ script = "glyph_width" /\ Len(trace) < 2
    /\ trace' = Append(trace, SnapWidth(IF trace = <<>> THEN argv ELSE trace[Len(trace)]))
    /\ UNCHANGED <<runVars, pc, args, font, events, console, written, ret, exitStatus,
                   glyphIdx, opIdx, attempted, failed, saveCalls, msVars, cmpVars>>

\* --------------------------------------------------------------------- spec
InitRun ==
    \/ script = "convert_font" /\ argv \in CF_Argv /\ env \in CF_Env
    \/ script = "optimize_glyph" /\ argv \in OG_Argv /\ env \in OG_Env
    \/ script = "merge_svg_font" /\ argv \in MS_Argv /\ env \in MS_Env
    \/ script = "font_cmap_compare" /\ argv \in CMP_Argv /\ env \in CC_Env
    \/ script = "font_diff_checker" /\ argv \in CMP_Argv /\ env \in DC_Env

InitRest ==
    /\ pc = "main"
    /\ args = None
    /\ font = None
    /\ events = <<>>
    /\ console = {}
    /\ written = {}
    /\ ret = None
    /\ exitStatus = -1
    /\ glyphIdx = 0 /\ opIdx = 0 /\ trace = <<>> /\ attempted = <<>>
    /\ failed = {} /\ saveCalls = 0
    /\ entries = None /\ fileIdx = 0 /\ processed = 0 /\ errors = 0 /\ created = {}
    /\ openFonts = {} /\ old_codepoints = None /\ new_codepoints = None
    /\ added_codepoints = None /\ removed_codepoints = None
    /\ changed_outlines = {} /\ changed_metrics = {} /\ warned = {} /\ compared = {}
    /\ report = [k \in {} |-> <<>>]

Init == InitRun /\ InitRest

InitFmt ==
    /\ script = "format_codepoints" /\ argv \in FmtSets /\ env = None
    /\ InitRest

Next ==
    \/ CF_Main \/ CF_CheckInput \/ CF_Open \/ CF_Setup \/ CF_Generate
    \/ CF_Report \/ CF_Exit
    \/ OG_Main \/ OG_Open \/ OG_NextGlyph \/ OG_GlyphOp \/ OG_SaveFont \/ OG_Exit
    \/ MS_Main \/ MS_CheckDir \/ MS_CreateFont \/ MS_File \/ MS_Generate \/ MS_Exit
    \/ CC_Main \/ CC_CheckFiles \/ CC_GetOld \/ CC_GetNew \/ CC_Diff \/ CC_Exit
    \/ DC_Main \/ DC_CheckFiles \/ DC_Load \/ DC_Cmap \/ DC_Outlines \/ DC_Metrics
    \/ DC_Summary \/ DC_Exit

NextFmt == FMT_Cmap \/ FMT_Diff

InitWidth ==
    /\ script = "glyph_width" /\ argv \in 0..MaxWidth /\ env = None
    /\ InitRest

NextWidth == GW_SetWidth

Spec == Init /\ [][Next]_vars

SpecFmt == InitFmt /\ [][NextFmt]_vars

SpecWidth == InitWidth /\ [][NextWidth]_vars

\* ================================================================== claims
EventIdx(ops) == {i \in 1..Len(events) : events[i].op \in ops}
Generated == EventIdx({"generate"}) # {}
GeneratedPath == events[CHOOSE i \in EventIdx({"generate"}) : TRUE].path

\* The extension of a path, stated without splitext: the suffix that starts at
\* a dot, holds no other dot and no separator, and follows a last component
\* that is neither empty nor made of dots only; empty when there is none.
ExtStarts(p) ==
    {k \in 1..Len(p) :
        /\ p[k] = "."
        /\ \A j \in (k + 1)..Len(p) : p[j] \notin {".", "/"}
        /\ \E j \in 1..(k - 1) : /\ p[j] \notin {".", "/"}
                                 /\ \A m \in j..(k - 1) : p[m] # "/"}
StemOf(p) == IF ExtStarts(p) = {} THEN p
             ELSE SubSeq(p, 1, (CHOOSE k \in ExtStarts(p) : TRUE) - 1)
ExtOf(p) == IF ExtStarts(p) = {} THEN <<>>
            ELSE SubSeq(p, CHOOSE k \in ExtStarts(p) : TRUE, Len(p))

\* C1: when convert_font.py is run with --family-name N and/or --version V,
\* the font that is generated has familyname and fullname N, fontname N
\* without spaces and version V; a field whose option is omitted keeps the
\* value the font was opened with.
C1_MetadataOverrides ==
    (script = "convert_font" /\ Generated) =>
        LET f == font[1]
            N == argv.family_name
            V == argv.version
        IN  /\ f.familyname = IF Truthy(N) THEN N[1] ELSE OrigFont.familyname
            /\ f.fullname = IF Truthy(N) THEN N[1] ELSE OrigFont.fullname
            /\ f.fontname = IF Truthy(N) THEN StrRemove(N[1], <<" ">>) ELSE OrigFont.fontname
            /\ f.version = IF Truthy(V) THEN V[1] ELSE OrigFont.version

\* C2: a run of convert_font.py, optimize_glyph.py or merge_svg_font.py whose
\* whole job failed never terminates with exit status 0.
JobFailed ==
    \/ script = "convert_font" /\ ret = Some(FALSE)
    \/ script = "optimize_glyph" /\ ret = Some(None)
    \/ script = "merge_svg_font" /\ "merge: error creating font" \in console
C2_FailedRunExitsNonZero ==
    (pc = "exited" /\ JobFailed) => exitStatus # 0

\* C3: process_font attempts every glyph exactly once in font order, a glyph
\* that raises stops no later glyph and is not retried, and after the last
\* glyph _save_font is called once, however many glyphs failed.
C3_SkipAndContinue ==
    script = "optimize_glyph" =>
        /\ attempted = [i \in 1..glyphIdx |-> i]
        /\ failed \subseteq 1..glyphIdx
        /\ saveCalls <= 1
        /\ pc = "og_glyph" => glyphIdx \notin failed
        /\ pc = "og_save" => (Len(attempted) = env.nGlyphs /\ saveCalls = 0)
        /\ (pc \in {"og_returned", "exited"} /\ glyphIdx > 0) =>
               (Len(attempted) = env.nGlyphs /\ saveCalls = 1)
        /\ (pc \in {"og_returned", "exited"} /\ glyphIdx = 0) => saveCalls = 0
C3_Witness ==
    /\ script = "optimize_glyph" /\ pc = "og_returned"
    /\ env.nGlyphs >= 2 /\ 1 \in failed /\ Len(attempted) = env.nGlyphs /\ saveCalls = 1

\* C4: in convert_font.py, optimize_glyph.py and merge_svg_font.py
\* font.generate is called at most once, only after the font object was
\* obtained and after all per-glyph processing has finished, and no glyph or
\* font-property operation follows it; the exit follows all of them.
C4_OpenProcessWriteExit ==
    script \in {"convert_font", "optimize_glyph", "merge_svg_font"} =>
        /\ Cardinality(EventIdx({"generate"})) <= 1
        /\ \A g \in EventIdx({"generate"}) :
             /\ font # None
             /\ \E o \in EventIdx({"open", "font"}) : o < g
             /\ \A j \in EventIdx({"open", "font", "glyph", "setprops", "listdir"}) : j < g
             /\ script = "optimize_glyph" =>
                    (glyphIdx = env.nGlyphs /\ pc \in {"og_returned", "exited"})
             /\ script = "merge_svg_font" =>
                    (fileIdx = Len(entries[1]) /\ pc \in {"ms_returned", "exited"})
             /\ script = "convert_font" => pc \in {"cf_report", "cf_returned", "exited"}
        /\ exitStatus # -1 <=> pc = "exited"
C4_Witness ==
    /\ script = "optimize_glyph" /\ pc = "exited" /\ Generated
    /\ Len(attempted) >= 2 /\ failed = {}

\* C5: the added set is new minus old and the removed set is old minus new;
\* they are disjoint from each other and from the common set, and
\* font_cmap_compare prints the 'identical' message exactly when the two
\* codepoint sets are equal, the 'analysis complete' message otherwise.
C5_CmapSetDifference ==
    (script \in {"font_cmap_compare", "font_diff_checker"} /\ added_codepoints # None) =>
        LET old == old_codepoints[1]
            new == new_codepoints[1]
            added == added_codepoints[1]
            removed == removed_codepoints[1]
        IN  /\ \A c \in old \cup new \cup added \cup removed :
                 /\ c \in added <=> (c \in new /\ c \notin old)
                 /\ c \in removed <=> (c \in old /\ c \notin new)
            /\ added \cap removed = {}
            /\ added \cap (old \cap new) = {}
            /\ removed \cap (old \cap new) = {}
            /\ script = "font_cmap_compare" =>
                 /\ "compare: cmap identical" \in console <=> old = new
                 /\ "compare: difference analysis complete" \in console <=> old # new
C5_Witness ==
    /\ script = "font_cmap_compare" /\ pc = "cc_returned" /\ added_codepoints # None
    /\ added_codepoints[1] # {} /\ removed_codepoints[1] # {}
    /\ old_codepoints[1] \cap new_codepoints[1] # {}

\* C6: optimize_glyph.py writes only the path made of the input's stem,
\* "_merge_glyphs" and the input's extension, which is never the input path;
\* process_font returns that path only when font.generate succeeded, and
\* returns None with nothing written when the font cannot be opened, has no
\* glyphs or generation fails.
C6_MergeGlyphsOutput ==
    (script = "optimize_glyph" /\ args # None) =>
        LET input == args.font_file
            output == StemOf(input) \o <<"_merge_glyphs">> \o ExtOf(input)
        IN  /\ output # input
            /\ written \subseteq {output}
            /\ input \notin written
            /\ \A g \in EventIdx({"generate"}) : events[g].path = output
            /\ ret # None =>
                 /\ ret[1] # None => (ret[1] = Some(output) /\ written = {output})
                 /\ ret[1] = None <=> written = {}
                 /\ console \cap {"optimize: cannot open", "optimize: no glyphs",
                                  "optimize: save failed"} # {} => ret[1] = None
C6_Witness ==
    /\ script = "optimize_glyph" /\ pc = "og_returned"
    /\ Generated /\ ExtOf(args.font_file) # <<>> /\ ret = Some(Some(GeneratedPath))
    /\ written = {GeneratedPath}

\* C7 as stated: the format is one of the six and woff2 when -f is absent;
\* without -o the output path is the input path with its extension replaced
\* by the format, with -o it is exactly the path given.
C7_OutputPathAsStated ==
    (script = "convert_font" /\ Generated) =>
        /\ args.format_type \in {"ttf", "otf", "woff", "woff2", "eot", "svg"}
        /\ IsNone(argv.format) => args.format_type = "woff2"
        /\ IsNone(argv.output) =>
               GeneratedPath = StemOf(argv.input) \o <<".", args.format_type>>
        /\ ~IsNone(argv.output) => GeneratedPath = argv.output[1]

\* C7 amended: the format is one of the six and woff2 when -f is absent; when
\* -o is absent or empty the output path is the input path with its extension
\* replaced by the format, and when -o is a non-empty path the output is
\* written exactly there.
C7_OutputPath ==
    (script = "convert_font" /\ Generated) =>
        /\ args.format_type \in {"ttf", "otf", "woff", "woff2", "eot", "svg"}
        /\ IsNone(argv.format) => args.format_type = "woff2"
        /\ ~IsNone(argv.format) => args.format_type = argv.format[1]
        /\ (IsNone(argv.output) \/ argv.output = Some(<<>>)) =>
               GeneratedPath = StemOf(argv.input) \o <<".", args.format_type>>
        /\ (~IsNone(argv.output) /\ argv.output # Some(<<>>)) =>
               GeneratedPath = argv.output[1]
        /\ written \subseteq {GeneratedPath}
C7_Witness ==
    /\ script = "convert_font" /\ Generated /\ argv.output = Some(<<>>)
    /\ IsNone(argv.format) /\ ExtOf(argv.input) # <<>> /\ written = {GeneratedPath}

\* C8: a missing input is found before any library call: nothing is opened
\* and nothing written.  The two comparing functions test the old path first
\* and return before opening a font when either path is missing; convert_font
\* returns False; create_svg_font exits with status 1.
C8_ExistenceFirst ==
    /\ script \in {"convert_font", "merge_svg_font", "font_cmap_compare", "font_diff_checker"}
         => \A i \in EventIdx({"open", "font", "generate", "glyph", "listdir"}) :
               \E j \in EventIdx({"exists"}) : j < i
    /\ (script = "convert_font" /\ ~env.inputExists) =>
         /\ EventIdx({"open", "generate"}) = {} /\ written = {} /\ font = None
         /\ (pc = "cf_returned" \/ exitStatus = 0) => ret = Some(FALSE)
    /\ (script = "merge_svg_font" /\ ~env.dirExists) =>
         /\ EventIdx({"font", "generate", "glyph"}) = {} /\ written = {}
         /\ pc = "exited" => exitStatus = 1
    /\ script \in {"font_cmap_compare", "font_diff_checker"} =>
         /\ events # <<>> => events[1] = [op |-> "exists", path |-> args.old_font_path]
         /\ (~env.oldExists \/ ~env.newExists) =>
              /\ EventIdx({"open"}) = {} /\ openFonts = {}
              /\ old_codepoints = None /\ new_codepoints = None
              /\ pc \notin {"main", "cc_exists", "dc_exists"} =>
                   (ret = Some(None) /\ pc \in {"cc_returned", "dc_returned", "exited"})
         /\ ~env.oldExists => Cardinality(EventIdx({"exists"})) <= 1
C8_Witness ==
    /\ script = "font_diff_checker" /\ pc = "dc_returned"
    /\ env.oldExists /\ ~env.newExists /\ Len(events) = 2

\* C9: process_glyph applies the same sequence of operations to every glyph
\* whatever the simplify value: references are unlinked before any simplify,
\* the line-endpoint pass lies between the first simplify and the main one,
\* removeOverlap precedes correctDirection, autoHint follows the main
\* simplifications and round comes last; the user's value (0.5 by default) is
\* the tolerance of exactly the two main simplify calls, the other simplify
\* calls have fixed tolerances.
C9_Names ==
    << "process_compound_glyph", "simplify", "process_line_endpoints", "simplify",
       "canonicalContours", "canonicalStart", "removeOverlap", "correctDirection",
       "simplify", "round", "autoHint", "simplify", "width", "balance", "autoHint",
       "simplify", "cluster", "removeOverlap", "simplify", "round" >>
Positions(name) == {i \in 1..Len(trace) : trace[i].op = name}
UserSimplify == {i \in 1..Len(trace) : trace[i].user}
HexDigitValue(c) ==
    CASE c = "0" -> 0 [] c = "1" -> 1 [] c = "2" -> 2 [] c = "3" -> 3 [] c = "4" -> 4
      [] c = "5" -> 5 [] c = "6" -> 6 [] c = "7" -> 7 [] c = "8" -> 8 [] c = "9" -> 9
      [] c = "A" -> 10 [] c = "B" -> 11 [] c = "C" -> 12 [] c = "D" -> 13
      [] c = "E" -> 14 [] c = "F" -> 15 [] OTHER -> -1000000
RECURSIVE ReadHex(_)
ReadHex(t) == IF t = <<>> THEN 0
              ELSE 16 * ReadHex(SubSeq(t, 1, Len(t) - 1)) + HexDigitValue(t[Len(t)])
\* the codepoint a piece "U+XXXX" names, -1 when it is not of that form
ReadCp(item) ==
    IF /\ item.kind = "cp" /\ Len(item.text) >= 6
       /\ item.text[1] = "U" /\ item.text[2] = "+"
    THEN ReadHex(SubSeq(item.text, 3, Len(item.text)))
    ELSE -1
Ascending(q) == \A i \in 1..(Len(q) - 1) : q[i] < q[i + 1]
ListsSet(items, S) ==
    LET q == [i \in 1..Len(items) |-> ReadCp(items[i])]
    IN  /\ Ascending(q) /\ {q[i] : i \in 1..Len(q)} = S /\ Len(q) = Cardinality(S)
Smallest(S, k) == {c \in S : Cardinality({d \in S : d < c}) < k}
Largest(S, k) == {c \in S : Cardinality({d \in S : d > c}) < k}
WellFormatted(r, S) ==
    LET size == Cardinality(S)
    IN  /\ S = {} => r = <<[kind |-> "none", text |-> <<>>, n |-> 0]>>
        /\ (S # {} /\ size <= 20) => ListsSet(r, S)
        /\ size > 20 =>
             /\ Len(r) = 21
             /\ ListsSet(SubSeq(r, 1, 10), Smallest(S, 10))
             /\ r[11].kind = "more" /\ r[11].n = size - 20
             /\ ListsSet(SubSeq(r, 12, 21), Largest(S, 10))
             /\ 20 + r[11].n = size
C10_FormatCodepoints ==
    script = "format_codepoints" =>
        /\ \A k \in DOMAIN report : WellFormatted(report[k], argv)
        /\ DOMAIN report = {"cmap", "diff"} => report["cmap"] = report["diff"]
C10_Witness ==
    /\ script = "format_codepoints" /\ DOMAIN report = {"cmap", "diff"}
    /\ Cardinality(argv) > 21 /\ 128512 \in argv /\ 5 \notin argv

\* C11: in create_svg_font processed + errors is, at every iteration, the
\* number of ".svg" entries visited so far, other entries change no counter,
\* the entries are visited once each in sorted order, and at the end the sum
\* is the number of ".svg" entries; a file whose name is no hexadecimal
\* codepoint is counted in errors, never in processed, and creates no glyph.
HasSvgSuffix(name) ==
    /\ Len(name) >= 4
    /\ <<name[Len(name) - 3], name[Len(name) - 2], name[Len(name) - 1], name[Len(name)]>>
         = <<".", "s", "v", "g">>
\* the codepoint a file name stands for, -1 when it stands for none
NamedCodepoint(name) ==
    CASE name = <<"u", "4", "1", ".", "s", "v", "g">> -> 65
      [] name = <<"4", "e", ".", "s", "v", "g">> -> 78
      [] OTHER -> -1
C11_CountersPartition ==
    (script = "merge_svg_font" /\ entries # None) =>
        LET names == entries[1]
            visited == {names[i] : i \in 1..fileIdx}
            svg == {n \in visited : HasSvgSuffix(n)}
            good == {n \in svg : NamedCodepoint(n) # -1}
        IN  /\ fileIdx \in 0..Len(names)
            /\ Len(names) = Cardinality(env.listing)
            /\ {names[i] : i \in 1..Len(names)} = env.listing
            /\ \A i \in 1..(Len(names) - 1) : StrLess(names[i], names[i + 1])
            /\ processed + errors = Cardinality(svg)
            /\ processed <= Cardinality(good)
            /\ errors >= Cardinality(svg \ good)
            /\ created \subseteq {NamedCodepoint(n) : n \in good}
            /\ Cardinality(created) >= processed
            /\ pc \in {"ms_returned", "exited"} =>
                 /\ fileIdx = Len(names)
                 /\ processed + errors = Cardinality({n \in env.listing : HasSvgSuffix(n)})
C11_Witness ==
    /\ script = "merge_svg_font" /\ pc = "ms_returned" /\ fileIdx = 2
    /\ processed = 1 /\ errors = 1 /\ created # {}
    /\ \E i \in 1..2 : HasSvgSuffix(entries[1][i]) /\ NamedCodepoint(entries[1][i]) = -1

\* C12: in compare_fonts changed_outlines and changed_metrics are subsets of
\* the common codepoints, every common codepoint is compared in both passes
\* or covered by a warning, and the 'completely identical' message is printed
\* only when nothing was added or removed and every common codepoint has
\* equal outlines and equal (width, lsb) in the two fonts.
SameGlyph(c) ==
    /\ c \in DOMAIN env.old.outline /\ c \in DOMAIN env.new.outline
    /\ env.old.outline[c] = env.new.outline[c]
    /\ c \in DOMAIN env.old.metrics /\ c \in DOMAIN env.new.metrics
    /\ env.old.metrics[c] = env.new.metrics[c]
C12_IdenticalMeansEqual ==
    (script = "font_diff_checker" /\ old_codepoints # None) =>
        LET common == old_codepoints[1] \cap new_codepoints[1]
        IN  /\ changed_outlines \subseteq common
            /\ changed_metrics \subseteq common
            /\ pc \in {"dc_summary", "dc_returned"} =>
                 \A c \in common :
                   /\ \/ <<"outline", c>> \in compared \cup warned
                      \/ "compare: no outline data" \in console
                   /\ \/ <<"metrics", c>> \in compared \cup warned
                      \/ "compare: no metrics data" \in console
            /\ "compare: fonts identical" \in console =>
                 /\ old_codepoints[1] = new_codepoints[1]
                 /\ \A c \in common : SameGlyph(c)

\* C13: convert_font returns True exactly when font.generate completed and
\* wrote the output file; when it returns False no output file was written
\* by the call.
C13_ResultTellsOutput ==
    (script = "convert_font" /\ ret # None) =>
        /\ ret = Some(TRUE) <=> (Generated /\ written = {GeneratedPath})
        /\ ret = Some(FALSE) => written = {}

\* C14: every font the comparison tools open is closed before the function
\* that opened it returns: get_unicode_codepoints of font_cmap_compare.py on
\* every path, compare_fonts of font_diff_checker.py on every path.
C14_FontsClosed ==
    /\ (script = "font_cmap_compare" /\ pc \in {"cc_new", "cc_diff", "cc_returned", "exited"})
         => openFonts = {}
    /\ (script = "font_diff_checker" /\ (pc = "dc_returned" \/ exitStatus = 0))
         => openFonts = {}

\* C15 as stated: the width assigned is a multiple of 10 at most 5 away from
\* w and nearest to it, a multiple of 10 stays, assigning again changes
\* nothing, and a width with w mod 10 = 5 is always rounded up.
Abs(x) == IF x < 0 THEN -x ELSE x
SnapsToTen(w, v) ==
    /\ v % 10 = 0
    /\ Abs(v - w) <= 5
    /\ \A m \in 0..(w + 10) : m % 10 = 0 => Abs(v - w) <= Abs(m - w)
    /\ w % 10 = 0 => v = w
C15_WidthAsStated ==
    (script = "glyph_width" /\ trace # <<>>) =>
        /\ SnapsToTen(argv, trace[1])
        /\ Len(trace) = 2 => trace[2] = trace[1]
        /\ argv % 10 = 5 => trace[1] = argv + 5

\* C15 amended: as above, except that a width with w mod 10 = 5 goes to the
\* neighbouring multiple of 10 that is an even multiple (5 to 0, 15 to 20,
\* 25 to 20), which is up for some widths and down for the others.
C15_WidthSnap ==
    (script = "glyph_width" /\ trace # <<>>) =>
        /\ SnapsToTen(argv, trace[1])
        /\ Len(trace) = 2 => trace[2] = trace[1]
        /\ argv % 10 = 5 =>
             /\ trace[1] \in {argv - 5, argv + 5}
             /\ trace[1] % 20 = 0
C15_Witness ==
    /\ script = "glyph_width" /\ argv = 25 /\ Len(trace) = 2 /\ trace[1] = 20
====
